---- MODULE Spec2Model ----
(***************************************************************************)
(* A model of the bitmap codec of rust_images: decoding a byte buffer to   *)
(* a Bitmap, encoding a Bitmap to bytes, and the adapter between a Bitmap  *)
(* and the Image pixel grid, plus the colour conversion dispatch.          *)
(*                                                                         *)
(* Values.  A byte is a number in 0..255.  A 32-bit word that holds a      *)
(* packed colour is kept as the sequence of its four bytes, least          *)
(* significant first, because its numeric value does not fit the model     *)
(* checker's integers; header fields are kept as integers.                 *)
(* A Result is a record with a tag: "Ok" (val), "Err" (msg), "Panic" (the  *)
(* call unwinds) or "Diverge" (the call never returns).                    *)
(***************************************************************************)
EXTENDS Integers, Sequences, FiniteSets, TLC

VARIABLES
    bytes,      \* the byte buffer handed to Bitmap::try_from
    decoded,    \* the Result of Bitmap::try_from(bytes)
    image,      \* the Image handed to Bitmap::try_convert_from
    options,    \* the BitmapConvertData handed with it
    built,      \* the Result of Bitmap::try_convert_from(image, options)
    encoded,    \* the Result of Vec<u8>::try_from(bitmap) of the current Bitmap
    converted,  \* the Result of Image::try_convert_from(bitmap) of the current Bitmap
    colorconv,  \* the last colour conversion: source kind, target kind, Result
    written,    \* the Result of the console's decode-convert-convert-encode chain
    grid,       \* the Image the pixel-grid calls act on
    gridop,     \* the last pixel-grid call and what it returned
    word,       \* the last packing or unpacking of a colour and its way back
    dist,       \* the last pair of colours measured and their distances
    iter,       \* the ImageIterator in use: its row cursor and what it returned
    pc          \* "start", "decoded", "built", "written", "color", "grid",
                \* "word", "dist" or "iter": which entry point ran

vars ==
    <<bytes, decoded, image, options, built, encoded, converted, colorconv,
      written, grid, gridop, word, dist, iter, pc>>

\* the variables of the pixel-grid calls and of the colour arithmetic
gridvars == <<grid, gridop>>
colorvars == <<word, dist>>

-----------------------------------------------------------------------------
(* Bounds of the model *)

MaxW == 2          \* header widths range over -MaxW..MaxW
MaxH == 2          \* header heights range over -MaxH..MaxH
MaxTable == 2      \* colour-table entries of a generated buffer
MaxImgSide == 2    \* width and height of a source Image
MaxImgPixels == 4  \* pixel count of a source Image
MaxSpare == 1      \* spare capacity of a pixel vector: capacity - length
WideW == 5         \* width of the one-row Images wider than a packed byte pair
MaxRows == 3       \* height of the Images an ImageIterator walks
MaxCalls == 4      \* next() and next_back() calls made on one ImageIterator

-----------------------------------------------------------------------------
(* Program constants: lib/src/constants.rs *)

SIGNATURE == 19778          \* 0x4D42
HEADER_SIZE == 14
INFO_HEADER_SIZE == 40
COLOR_TABLE_SIZE_FACTOR == 4

-----------------------------------------------------------------------------
(* Results *)

None == [tag |-> "None"]
Ok(v) == [tag |-> "Ok", val |-> v]
\* an error value: the message's format string and its arguments
Err(m, a) == [tag |-> "Err", msg |-> m, args |-> a]
Panic == [tag |-> "Panic"]
Diverge == [tag |-> "Diverge"]

IsOk(r) == r.tag = "Ok"

\* Option::Some(v); Option::None is None
Some(v) == [tag |-> "Some", val |-> v]

-----------------------------------------------------------------------------
(* Arithmetic helpers *)

Byte == 0..255

Abs(n) == IF n < 0 THEN -n ELSE n

Min(a, b) == IF a < b THEN a ELSE b

\* f32::ceil(a / b) for the small non-negative operands of the codec
CeilDiv(a, b) == (a + b - 1) \div b

RECURSIVE Pow2(_)
Pow2(n) == IF n = 0 THEN 1 ELSE 2 * Pow2(n - 1)

\* ((value + 4 - 1) & -4) as usize; the operands of the codec are >= 0
round_to_next_multiple_of_4(value) == (value + 3) - ((value + 3) % 4)

\* u16 / u32 reduce_bit_slice: the sum of byte << (8 * index)
RECURSIVE reduce_bit_slice(_)
reduce_bit_slice(slice) ==
    IF Len(slice) = 0 THEN 0
    ELSE Head(slice) + 256 * reduce_bit_slice(Tail(slice))

\* i32 reduce_bit_slice: the shift of the fourth byte into bits 24..31 wraps
\* to the two's complement value
reduce_bit_slice_i32(slice) ==
    slice[1] + 256 * slice[2] + 65536 * slice[3]
        + 16777216 * (IF slice[4] >= 128 THEN slice[4] - 256 ELSE slice[4])

\* u16::to_le_bytes / u32::to_le_bytes
to_le_bytes_u16(n) == <<n % 256, (n \div 256) % 256>>

to_le_bytes_u32(n) ==
    <<n % 256, (n \div 256) % 256, (n \div 65536) % 256, (n \div 16777216) % 256>>

\* i32::to_le_bytes: two's complement for a negative value
to_le_bytes_i32(n) ==
    IF n >= 0 THEN to_le_bytes_u32(n)
    ELSE LET m == (-n) - 1
         IN  <<255 - (m % 256), 255 - ((m \div 256) % 256),
               255 - ((m \div 65536) % 256), 255 - ((m \div 16777216) % 256)>>

-----------------------------------------------------------------------------
(* Colours: lib/src/color.rs *)

ARGB(a, r, g, b) == [alpha |-> a, red |-> r, green |-> g, blue |-> b]

\* fn as_u32(v, little_endian): the word, as its bytes least significant first
as_u32(v, little_endian) ==
    IF little_endian THEN <<v[1], v[2], v[3], v[4]>>
    ELSE <<v[4], v[3], v[2], v[1]>>

\* a packing that leaves the alpha channel out of the word
ARGB_as_u32_without_alpha(c, little_endian) ==
    as_u32(<<0, c.red, c.green, c.blue>>, little_endian)

\* ARGB::as_u32
ARGB_as_u32(c, little_endian) ==
    as_u32(<<c.alpha, c.red, c.green, c.blue>>, little_endian)

\* an unpacking that reads the word the same way for both flags
from_u32_one_order(n, little_endian) == <<n[4], n[3], n[2], n[1]>>

\* fn from_u32(n, little_endian): (n >> 8k) & 0xFF is byte k of the word
from_u32(n, little_endian) ==
    IF little_endian THEN <<n[1], n[2], n[3], n[4]>>
    ELSE <<n[4], n[3], n[2], n[1]>>

\* ARGB::from_u32
ARGB_from_u32(n, little_endian) ==
    LET v == from_u32(n, little_endian)
    IN  ARGB(v[1], v[2], v[3], v[4])

\* ARGB::with_alpha
ARGB_with_alpha(c, alpha) == [c EXCEPT !.alpha = alpha]

\* f32::sqrt of a whole number s <= 3 * 255^2.  The square roots of two such
\* numbers are different f32 values, so the value is kept as its radicand:
\* f32_sqrt(0) is 0.0
f32_sqrt(s) == [sqrt_of |-> s]

\* fn distance_euclidean(a, b); the squares and their sum are exact in f32
distance_euclidean(a, b) ==
    f32_sqrt(((a[1] - b[1]) * (a[1] - b[1])) + ((a[2] - b[2]) * (a[2] - b[2]))
             + ((a[3] - b[3]) * (a[3] - b[3])))

\* fn distance_manhattan(a, b)
distance_manhattan(a, b) == Abs(a[1] - b[1]) + Abs(a[2] - b[2]) + Abs(a[3] - b[3])

\* ARGB::distance_euclidean
ARGB_distance_euclidean(self, other) ==
    distance_euclidean(<<self.red, self.blue, self.green>>,
                       <<other.red, other.blue, other.green>>)

\* a Manhattan distance that counts the alpha channel too
ARGB_distance_manhattan_with_alpha(self, other) ==
    distance_manhattan(<<self.red, self.blue, self.green>>,
                       <<other.red, other.blue, other.green>>)
        + Abs(self.alpha - other.alpha)

\* ARGB::distance_manhattan
ARGB_distance_manhattan(self, other) ==
    distance_manhattan(<<self.red, self.blue, self.green>>,
                       <<other.red, other.blue, other.green>>)

-----------------------------------------------------------------------------
(* Bitmap values: lib/src/image/format/bitmap.rs *)

BitmapHeader(sig, fs, res, off) ==
    [signature |-> sig, file_size |-> fs, reserved |-> res, data_offset |-> off]

Indices(s) == [kind |-> "Indices", data |-> s]
Colors(s) == [kind |-> "Colors", data |-> s]

Bitmap(h, ih, ct, px) ==
    [header |-> h, info_header |-> ih, color_table |-> ct, pixels |-> px]

-----------------------------------------------------------------------------
(* Decode: impl TryFrom<&[u8]> for Bitmap *)

\* get_next_bytes(buffer, offset, n): the slice buffer[offset .. offset + n];
\* the slice expression panics when offset + n is past the buffer's end
CanGetNextBytes(buffer, offset, n) == offset + n <= Len(buffer)

get_next_bytes(buffer, offset, n) == SubSeq(buffer, offset + 1, offset + n)

\* the file header and the info header, read field by field from offset 0
ParseHeader(value) ==
    BitmapHeader(reduce_bit_slice(get_next_bytes(value, 0, 2)),
                 reduce_bit_slice(get_next_bytes(value, 2, 4)),
                 reduce_bit_slice(get_next_bytes(value, 6, 4)),
                 reduce_bit_slice(get_next_bytes(value, 10, 4)))

ParseInfoHeader(value) ==
    [size               |-> reduce_bit_slice(get_next_bytes(value, 14, 4)),
     width              |-> reduce_bit_slice_i32(get_next_bytes(value, 18, 4)),
     height             |-> reduce_bit_slice_i32(get_next_bytes(value, 22, 4)),
     planes             |-> reduce_bit_slice(get_next_bytes(value, 26, 2)),
     bit_depth          |-> reduce_bit_slice(get_next_bytes(value, 28, 2)),
     compression        |-> reduce_bit_slice(get_next_bytes(value, 30, 4)),
     image_size         |-> reduce_bit_slice(get_next_bytes(value, 34, 4)),
     x_pixels_per_meter |-> reduce_bit_slice_i32(get_next_bytes(value, 38, 4)),
     y_pixels_per_meter |-> reduce_bit_slice_i32(get_next_bytes(value, 42, 4)),
     colors_used        |-> reduce_bit_slice(get_next_bytes(value, 46, 4)),
     important_colors   |-> reduce_bit_slice(get_next_bytes(value, 50, 4))]

\* a saturating subtraction in place of the checked one
color_table_length_saturating(data_offset, offset) ==
    IF data_offset >= offset THEN Ok(data_offset - offset) ELSE Ok(0)

\* (header.data_offset as usize).checked_sub(offset)
color_table_length(data_offset, offset) ==
    IF data_offset >= offset THEN Ok(data_offset - offset)
    ELSE Err("Bitmap data is malformed; data offset points to the info header.", <<>>)

\* chunk.get(i).unwrap_or(&0) on a chunk of up to 4 bytes
ChunkGet(chunk, i) == IF i < Len(chunk) THEN chunk[i + 1] ELSE 0

\* color_table_raw.chunks(4).map(...): blue, green, red, alpha
RECURSIVE ParsePalette(_)
ParsePalette(raw) ==
    IF Len(raw) = 0 THEN <<>>
    ELSE LET n == Min(4, Len(raw))
             chunk == SubSeq(raw, 1, n)
         IN  <<ARGB(ChunkGet(chunk, 3), ChunkGet(chunk, 2),
                    ChunkGet(chunk, 1), ChunkGet(chunk, 0))>>
             \o ParsePalette(SubSeq(raw, n + 1, Len(raw)))

\* (pixels_per_bit * ndx) + i > (info_header.width as usize): the cast of a
\* negative i32 wraps to 2^64 - |width|, which no left-hand side exceeds
PastWidthAsUsize(lhs, width) == IF width < 0 THEN FALSE ELSE lhs > width

\* the indices of one byte of an indexed scanline: for i in 1..=pixels_per_bit
RECURSIVE UnpackByte(_, _, _, _, _, _)
UnpackByte(chunk, ndx, i, pixels_per_bit, bit_depth, width) ==
    IF i > pixels_per_bit THEN <<>>
    ELSE IF PastWidthAsUsize((pixels_per_bit * ndx) + i, width) THEN <<>>
    ELSE <<(chunk \div Pow2(8 - (bit_depth * i))) % Pow2(bit_depth)>>
         \o UnpackByte(chunk, ndx, i + 1, pixels_per_bit, bit_depth, width)

\* scanline.iter().enumerate().for_each(...), from byte ndx on
RECURSIVE UnpackScanline(_, _, _, _, _, _)
UnpackScanline(scanline, ndx, scaline_width_temp, pixels_per_bit, bit_depth, width) ==
    IF ndx >= Len(scanline) THEN <<>>
    ELSE (IF ndx < scaline_width_temp
          THEN UnpackByte(scanline[ndx + 1], ndx, 1, pixels_per_bit, bit_depth, width)
          ELSE <<>>)
         \o UnpackScanline(scanline, ndx + 1, scaline_width_temp,
                           pixels_per_bit, bit_depth, width)

\* the indexed scanline loop; scanline_width > 0
RECURSIVE IndexedLoop(_, _, _, _, _, _, _)
IndexedLoop(value, offset, scanline_width, scaline_width_temp, pixels_per_bit, bit_depth, width) ==
    LET done == Len(value) < offset + scanline_width
        count == IF done THEN Len(value) - offset ELSE scanline_width
        scanline == get_next_bytes(value, offset, count)
        line == UnpackScanline(scanline, 0, scaline_width_temp,
                               pixels_per_bit, bit_depth, width)
    IN  IF done THEN line
        ELSE line \o IndexedLoop(value, offset + count, scanline_width,
                                 scaline_width_temp, pixels_per_bit, bit_depth, width)

\* a direct scanline read with the first byte of a pixel as red
RECURSIVE DirectScanline_red_first(_, _, _, _)
DirectScanline_red_first(scanline, line, bytesperpixel, abs_width) ==
    IF Len(scanline) = 0 THEN line
    ELSE LET n == Min(bytesperpixel, Len(scanline))
             chunk == SubSeq(scanline, 1, n)
             rest == SubSeq(scanline, n + 1, Len(scanline))
             color == ARGB(IF bytesperpixel = 4 THEN ChunkGet(chunk, 3) ELSE 255,
                           ChunkGet(chunk, 0), ChunkGet(chunk, 1), ChunkGet(chunk, 2))
         IN  IF Len(chunk) = bytesperpixel /\ Len(line) < abs_width
             THEN DirectScanline_red_first(rest, Append(line, color), bytesperpixel, abs_width)
             ELSE DirectScanline_red_first(rest, line, bytesperpixel, abs_width)

\* scanline.chunks(bytesperpixel).for_each(...): line is the pixels pushed so far
RECURSIVE DirectScanline(_, _, _, _)
DirectScanline(scanline, line, bytesperpixel, abs_width) ==
    IF Len(scanline) = 0 THEN line
    ELSE LET n == Min(bytesperpixel, Len(scanline))
             chunk == SubSeq(scanline, 1, n)
             rest == SubSeq(scanline, n + 1, Len(scanline))
             color == ARGB(IF bytesperpixel = 4 THEN ChunkGet(chunk, 3) ELSE 255,
                           ChunkGet(chunk, 2), ChunkGet(chunk, 1), ChunkGet(chunk, 0))
         IN  IF Len(chunk) = bytesperpixel /\ Len(line) < abs_width
             THEN DirectScanline(rest, Append(line, color), bytesperpixel, abs_width)
             ELSE DirectScanline(rest, line, bytesperpixel, abs_width)

\* the direct-colour scanline loop; scanline_width > 0
RECURSIVE DirectLoop(_, _, _, _, _)
DirectLoop(value, offset, scanline_width, bytesperpixel, abs_width) ==
    LET done == Len(value) < offset + scanline_width
        count == IF done THEN Len(value) - offset ELSE scanline_width
        scanline == get_next_bytes(value, offset, count)
        line == DirectScanline(scanline, <<>>, bytesperpixel, abs_width)
    IN  IF done THEN line
        ELSE line \o DirectLoop(value, offset + count, scanline_width,
                                bytesperpixel, abs_width)

\* an indexed branch that also takes 2-bit pixels
IsIndexedDepth_with_2(bit_depth) == bit_depth \in {1, 2, 4, 8}

\* [1, 4, 8].contains(&info_header.bit_depth)
IsIndexedDepth(bit_depth) == bit_depth \in {1, 4, 8}

\* the pixel data, from the offset behind the colour table (offset <= Len(value)).
\* A scanline width of 0 never sets done: the loop reads 0 bytes for ever.
DecodePixels(value, offset, info_header) ==
    IF IsIndexedDepth(info_header.bit_depth)
    THEN LET pixels_per_bit == CeilDiv(8, info_header.bit_depth)
             scaline_width_temp == CeilDiv(Abs(info_header.width), pixels_per_bit)
             scanline_width == round_to_next_multiple_of_4(scaline_width_temp)
         IN  IF scanline_width = 0 THEN Diverge
             ELSE Ok(Indices(IndexedLoop(value, offset, scanline_width,
                                         scaline_width_temp, pixels_per_bit,
                                         info_header.bit_depth, info_header.width)))
    ELSE IF info_header.bit_depth = 16
    THEN Err("Not implemented for 16-bit images!", <<>>)
    ELSE IF info_header.bit_depth \in {24, 32}
    THEN LET bytesperpixel == CeilDiv(info_header.bit_depth, 8)
             scaline_width_temp == Abs(info_header.width * bytesperpixel)
             scanline_width == round_to_next_multiple_of_4(scaline_width_temp)
         IN  IF scanline_width = 0 THEN Diverge
             ELSE Ok(Colors(DirectLoop(value, offset, scanline_width,
                                       bytesperpixel, Abs(info_header.width))))
    ELSE Err("Not implemented for {}-bit images!", <<info_header.bit_depth>>)

\* Bitmap::try_from(value)
Bitmap_try_from(value) ==
    IF ~CanGetNextBytes(value, 0, HEADER_SIZE + INFO_HEADER_SIZE) THEN Panic
    ELSE LET header == ParseHeader(value)
             info_header == ParseInfoHeader(value)
             offset == HEADER_SIZE + INFO_HEADER_SIZE
             len == color_table_length(header.data_offset, offset)
         IN  IF ~IsOk(len) THEN len
             ELSE IF len.val > 0 /\ ~CanGetNextBytes(value, offset, len.val) THEN Panic
             ELSE LET colors == ParsePalette(get_next_bytes(value, offset, len.val))
                      px == DecodePixels(value, offset + len.val, info_header)
                  IN  IF IsOk(px) THEN Ok(Bitmap(header, info_header, colors, px.val))
                      ELSE px

-----------------------------------------------------------------------------
(* Encode: impl TryFrom<Bitmap> for Vec<u8> *)

\* slice.chunks_exact(n), n > 0: the complete chunks, the remainder dropped
RECURSIVE chunks_exact(_, _)
chunks_exact(s, n) ==
    IF Len(s) < n THEN <<>>
    ELSE <<SubSeq(s, 1, n)>> \o chunks_exact(SubSeq(s, n + 1, Len(s)), n)

\* a scanline padded with zeros to an even length only
PadRow_to_even(row) == row \o [k \in 1..(Len(row) % 2) |-> 0]

\* bytes.resize(round_to_next_multiple_of_4(bytes.len()), 0)
PadRow(row) ==
    row \o [k \in 1..(round_to_next_multiple_of_4(Len(row)) - Len(row)) |-> 0]

\* color_index & ((2 << (bit_depth + 1)) - 1) as u8
normalized_index(color_index, bit_depth) ==
    color_index % Min(Pow2(bit_depth + 2), 256)

\* normalized_index << (8 - bit_depth_u8 - (index_mod * bit_depth_u8)), in u8
shifted_index(color_index, index_mod, bit_depth) ==
    (normalized_index(color_index, bit_depth)
        * Pow2(8 - bit_depth - (index_mod * bit_depth))) % 256

\* for (index, color_index) in scanline.iter().enumerate(), from index on.
\* The result is the bytes pushed, or Panic when current += shifted_index
\* overflows u8 in a build with overflow checks (it wraps in one without).
RECURSIVE PackScanline(_, _, _, _, _, _, _)
PackScanline(scanline, index, first, current, out, bit_depth, overflow_checks) ==
    IF index >= Len(scanline) THEN Ok(out)
    ELSE LET pixels_per_bit == CeilDiv(8, bit_depth)
             index_mod == index % pixels_per_bit
             out1 == IF index_mod = 0 /\ ~first THEN Append(out, current) ELSE out
             cur1 == IF index_mod = 0 THEN 0 ELSE current
             sum == cur1 + shifted_index(scanline[index + 1], index_mod, bit_depth)
             out2 == IF index = Len(scanline) - 1 THEN Append(out1, sum % 256) ELSE out1
         IN  IF sum > 255 /\ overflow_checks THEN Panic
             ELSE PackScanline(scanline, index + 1, FALSE, sum % 256, out2,
                               bit_depth, overflow_checks)

\* one scanline of indices as its padded bytes
IndexedRow(scanline, bit_depth, overflow_checks) ==
    IF bit_depth \in {1, 4, 8}
    THEN LET packed == PackScanline(scanline, 0, TRUE, 0, <<>>, bit_depth, overflow_checks)
         IN  IF IsOk(packed) THEN Ok(PadRow(packed.val)) ELSE packed
    ELSE Ok(<<>>)

\* one pixel of a direct scanline: as_u32(false).to_le_bytes(), truncated
ColorBytes(color, bytes_per_pixel) ==
    SubSeq(ARGB_as_u32(color, FALSE), 1, Min(bytes_per_pixel, 4))

RECURSIVE ColorRowBytes(_, _)
ColorRowBytes(scanline, bytes_per_pixel) ==
    IF Len(scanline) = 0 THEN <<>>
    ELSE ColorBytes(Head(scanline), bytes_per_pixel)
         \o ColorRowBytes(Tail(scanline), bytes_per_pixel)

\* the scanlines in turn, appended to pixel_bytes
RECURSIVE PixelBytes(_, _, _, _)
PixelBytes(rows, kind, bit_depth, overflow_checks) ==
    IF Len(rows) = 0 THEN Ok(<<>>)
    ELSE LET row == IF kind = "Indices"
                    THEN IndexedRow(Head(rows), bit_depth, overflow_checks)
                    ELSE Ok(PadRow(ColorRowBytes(Head(rows), CeilDiv(bit_depth, 8))))
             rest == PixelBytes(Tail(rows), kind, bit_depth, overflow_checks)
         IN  IF ~IsOk(row) THEN row
             ELSE IF ~IsOk(rest) THEN rest
             ELSE Ok(row.val \o rest.val)

\* the colour table: color.as_u32(false).to_le_bytes() of every entry
RECURSIVE ColorTableBytes(_)
ColorTableBytes(colors) ==
    IF Len(colors) = 0 THEN <<>>
    ELSE ARGB_as_u32(Head(colors), FALSE) \o ColorTableBytes(Tail(colors))

\* the two headers, field by field
HeaderBytes(value) ==
    to_le_bytes_u16(value.header.signature)
    \o to_le_bytes_u32(value.header.file_size)
    \o to_le_bytes_u32(value.header.reserved)
    \o to_le_bytes_u32(value.header.data_offset)
    \o to_le_bytes_u32(value.info_header.size)
    \o to_le_bytes_i32(value.info_header.width)
    \o to_le_bytes_i32(value.info_header.height)
    \o to_le_bytes_u16(value.info_header.planes)
    \o to_le_bytes_u16(value.info_header.bit_depth)
    \o to_le_bytes_u32(value.info_header.compression)
    \o to_le_bytes_u32(value.info_header.image_size)
    \o to_le_bytes_i32(value.info_header.x_pixels_per_meter)
    \o to_le_bytes_i32(value.info_header.y_pixels_per_meter)
    \o to_le_bytes_u32(value.info_header.colors_used)
    \o to_le_bytes_u32(value.info_header.important_colors)

\* Vec<u8>::try_from(value); chunks_exact(0) panics
Vec_try_from(value, overflow_checks) ==
    LET width == Abs(value.info_header.width)
    IN  IF width = 0 THEN Panic
        ELSE LET pixel_bytes == PixelBytes(chunks_exact(value.pixels.data, width),
                                           value.pixels.kind,
                                           value.info_header.bit_depth, overflow_checks)
             IN  IF ~IsOk(pixel_bytes) THEN pixel_bytes
                 ELSE Ok(HeaderBytes(value)
                         \o ColorTableBytes(value.color_table)
                         \o pixel_bytes.val)

-----------------------------------------------------------------------------
(* The pixel grid: lib/src/image.rs *)

\* Image::new_pixels
new_pixels(width, height, pixels) ==
    [width |-> width, height |-> height, pixels |-> pixels]

\* color::ARGB::default(): the derived Default, every channel 0
ARGB_default == ARGB(0, 0, 0, 0)

\* Image::new: vec![ARGB::default(); width * height]
Image_new(width, height) ==
    [width |-> width, height |-> height,
     pixels |-> [k \in 1..(width * height) |-> ARGB_default]]

\* Image::calculate_index
calculate_index(img, i, j) == (img.width * j) + i

\* Image::get, for a pixel vector of the given capacity (capacity >= length):
\* the index is compared with the capacity, and indexing at or past the
\* length panics
Image_get(img, capacity, i, j) ==
    LET index == calculate_index(img, i, j)
    IN  IF index > capacity THEN None
        ELSE IF index >= Len(img.pixels) THEN Panic
        ELSE Some(img.pixels[index + 1])

\* Image::set: the Image after the call; indexing at or past the length panics
Image_set(img, value, i, j) ==
    LET index == calculate_index(img, i, j)
    IN  IF index >= Len(img.pixels) THEN Panic
        ELSE Ok([img EXCEPT !.pixels[index + 1] = value])

\* Image::row(j): the slice panics when it ends past the pixels
CanRow(img, j) == calculate_index(img, img.width, j) <= Len(img.pixels)

row(img, j) ==
    SubSeq(img.pixels, calculate_index(img, 0, j) + 1, calculate_index(img, img.width, j))

\* ImageIterator::move_by: the cursor after adding n, bounded by the height
move_by(cur, n, height) == Min(cur + n, height)

\* Iterator::nth: the row index yielded at cursor cur, or None
nth(cur, n, height) ==
    IF cur + n > height THEN None ELSE Ok(cur)

\* DoubleEndedIterator::nth_back
nth_back(cur, n, height) ==
    IF cur + n > height THEN None ELSE Ok(height - cur - 1)

\* value.iter(): the row indices that next() yields until None
RECURSIVE IterRows(_, _)
IterRows(cur, height) ==
    LET item == nth(cur, 1, height)
    IN  IF item = None THEN <<>>
        ELSE <<item.val>> \o IterRows(move_by(cur, 1, height), height)

\* the rows taken in forward order, the rev() left out
IterRows_not_reversed(cur, height) == IterRows(cur, height)

\* value.iter().rev(): the row indices that next_back() yields until None
RECURSIVE IterRowsRev(_, _)
IterRowsRev(cur, height) ==
    LET item == nth_back(cur, 1, height)
    IN  IF item = None THEN <<>>
        ELSE <<item.val>> \o IterRowsRev(move_by(cur, 1, height), height)

\* the pixels of the rows whose indices are js, row after row
RECURSIVE FlatRows(_, _)
FlatRows(img, js) ==
    IF Len(js) = 0 THEN <<>>
    ELSE row(img, Head(js)) \o FlatRows(img, Tail(js))

-----------------------------------------------------------------------------
(* Image -> Bitmap: impl ConvertableFrom<Image> for Bitmap *)

\* the scan of the indexed branch over the pixels in iteration order:
\* color_table maps the key pixel.as_u32(true) to its index, colors is
\* color_table_colors, indices is color_table_indices
RECURSIVE ScanPixels(_, _, _, _)
ScanPixels(pixels, color_table, colors, indices) ==
    IF Len(pixels) = 0 THEN [color_table |-> color_table, colors |-> colors, indices |-> indices]
    ELSE LET pixel == Head(pixels)
             pixel_u32 == ARGB_as_u32(pixel, TRUE)
             color_table_len == Cardinality(DOMAIN color_table) % 256
             vacant == pixel_u32 \notin DOMAIN color_table
             table1 == IF vacant THEN (pixel_u32 :> color_table_len) @@ color_table
                       ELSE color_table
             colors1 == IF vacant THEN Append(colors, pixel) ELSE colors
         IN  ScanPixels(Tail(pixels), table1, colors1, Append(indices, table1[pixel_u32]))

\* a conversion that refuses a compression code other than 0
Bitmap_try_convert_from_uncompressed_only(value, opts) ==
    IF opts.compression # 0 THEN Err("Compression is not supported.", <<opts.compression>>) ELSE
    IF \E j \in 0..(value.height - 1) : ~CanRow(value, j) THEN Panic
    ELSE
    LET indexed == opts.bit_depth \in {1, 4, 8}
        scan == IF indexed
                THEN ScanPixels(FlatRows(value, IterRows(0, value.height)),
                                <<>>, <<>>, <<>>)
                ELSE [color_table |-> <<>>, colors |-> <<>>, indices |-> <<>>]
        pixels == IF indexed THEN Indices(scan.indices)
                  ELSE Colors(FlatRows(value, IterRowsRev(0, value.height)))
        table_len == Cardinality(DOMAIN scan.color_table)
        data_offset == HEADER_SIZE + INFO_HEADER_SIZE + (COLOR_TABLE_SIZE_FACTOR * table_len)
        bytes_per_pixel == CeilDiv(opts.bit_depth, 8)
        image_size == round_to_next_multiple_of_4(value.width * bytes_per_pixel) * value.height
    IN  Ok(Bitmap(BitmapHeader(SIGNATURE, data_offset + image_size, 0, data_offset),
                  [size               |-> INFO_HEADER_SIZE,
                   width              |-> value.width,
                   height             |-> value.height,
                   planes             |-> 1,
                   bit_depth          |-> opts.bit_depth,
                   compression        |-> opts.compression,
                   image_size         |-> 0,
                   x_pixels_per_meter |-> opts.x_pixels_per_meter,
                   y_pixels_per_meter |-> opts.y_pixels_per_meter,
                   colors_used        |-> table_len,
                   important_colors   |-> 0],
                  scan.colors, pixels))

\* Bitmap::try_convert_from(value, options)
Bitmap_try_convert_from(value, opts) ==
    IF \E j \in 0..(value.height - 1) : ~CanRow(value, j) THEN Panic
    ELSE
    LET indexed == opts.bit_depth \in {1, 4, 8}
        scan == IF indexed
                THEN ScanPixels(FlatRows(value, IterRows(0, value.height)),
                                <<>>, <<>>, <<>>)
                ELSE [color_table |-> <<>>, colors |-> <<>>, indices |-> <<>>]
        pixels == IF indexed THEN Indices(scan.indices)
                  ELSE Colors(FlatRows(value, IterRowsRev(0, value.height)))
        table_len == Cardinality(DOMAIN scan.color_table)
        data_offset == HEADER_SIZE + INFO_HEADER_SIZE + (COLOR_TABLE_SIZE_FACTOR * table_len)
        bytes_per_pixel == CeilDiv(opts.bit_depth, 8)
        image_size == round_to_next_multiple_of_4(value.width * bytes_per_pixel) * value.height
    IN  Ok(Bitmap(BitmapHeader(SIGNATURE, data_offset + image_size, 0, data_offset),
                  [size               |-> INFO_HEADER_SIZE,
                   width              |-> value.width,
                   height             |-> value.height,
                   planes             |-> 1,
                   bit_depth          |-> opts.bit_depth,
                   compression        |-> opts.compression,
                   image_size         |-> 0,
                   x_pixels_per_meter |-> opts.x_pixels_per_meter,
                   y_pixels_per_meter |-> opts.y_pixels_per_meter,
                   colors_used        |-> table_len,
                   important_colors   |-> 0],
                  scan.colors, pixels))

-----------------------------------------------------------------------------
(* Bitmap -> Image: impl ConvertableFrom<Bitmap> for Image *)

\* a row mapping that does not look at the sign of the height
RowOf_ignoring_sign(height, r) == r

\* let j = match height { h if h < 0 => (abs_height - 1) - r, _ => r }
RowOf(height, r) == IF height < 0 THEN (Abs(height) - 1) - r ELSE r

\* let i = match width { w if w < 0 => (abs_width - 1) - c, _ => c }
ColOf(width, c) == IF width < 0 THEN (Abs(width) - 1) - c ELSE c

\* let index = (abs_width * (abs_height - j - 1) + i)
PixelIndex(width, height, r, c) ==
    (Abs(width) * (Abs(height) - RowOf(height, r) - 1)) + ColOf(width, c)

\* the colour read at a flat index: None when a vector index is out of range
\* (the indexing expression panics)
ColorAt(value, index) ==
    IF index >= Len(value.pixels.data) THEN None
    ELSE IF value.pixels.kind = "Indices"
    THEN (IF value.pixels.data[index + 1] >= Len(value.color_table) THEN None
          ELSE Ok(value.color_table[value.pixels.data[index + 1] + 1]))
    ELSE Ok(value.pixels.data[index + 1])

\* a conversion that also turns the rows over when the vertical resolution
\* is negative
Image_try_convert_from_resolution_sign(value) ==
    LET width == value.info_header.width
        height == IF value.info_header.y_pixels_per_meter < 0
                  THEN -value.info_header.height ELSE value.info_header.height
        abs_width == Abs(width)
        abs_height == Abs(height)
        Cell(k) == ColorAt(value, PixelIndex(width, height, k \div abs_width, k % abs_width))
        count == abs_width * abs_height
    IN  IF \E k \in 0..(count - 1) : Cell(k) = None THEN Panic
        ELSE Ok(new_pixels(abs_width, abs_height, [k \in 1..count |-> Cell(k - 1).val]))

\* Image::try_convert_from(value, ())
Image_try_convert_from(value) ==
    LET width == value.info_header.width
        height == value.info_header.height
        abs_width == Abs(width)
        abs_height == Abs(height)
        Cell(k) == ColorAt(value, PixelIndex(width, height, k \div abs_width, k % abs_width))
        count == abs_width * abs_height
    IN  IF \E k \in 0..(count - 1) : Cell(k) = None THEN Panic
        ELSE Ok(new_pixels(abs_width, abs_height, [k \in 1..count |-> Cell(k - 1).val]))

-----------------------------------------------------------------------------
(* Colour conversion: lib/src/color/conversion.rs *)

ColorKinds == {"ARGB", "AXYZ", "ALAB", "AHSV"}

\* the edges whose body computes a colour; every other body is todo!(),
\* which unwinds.  The floating-point components of a computed colour are
\* not modelled: the result keeps the target kind, the source and the alpha.
ImplementedEdges ==
    {<<"ARGB", "AXYZ">>, <<"ARGB", "ALAB">>, <<"ARGB", "AHSV">>, <<"AXYZ", "ALAB">>}

\* <Target as ConvertableFrom<Source>>::try_convert_from(value, options)
try_convert_from(source, target, value) ==
    IF <<source, target>> \in ImplementedEdges
    THEN Ok([kind |-> target, of |-> value, alpha |-> value.alpha])
    ELSE Panic

-----------------------------------------------------------------------------
(* Inputs *)

BitDepths == {0, 1, 2, 4, 8, 16, 24, 32}

\* a BMP writer for the generated buffers.  Pixel (s, c) of stored scanline s
\* holds index (s + c + seed) % 2, or a colour whose channels tell s, c and
\* the channel apart.
GenIndex(p, s, c) == (s + c + p.seed) % 2

GenColorBytes(p, s, c) ==
    SubSeq(<<200 + s, 100 + c, 30 + p.seed, 60 + s + c>>, 1, p.bd \div 8)

GenPerByte(p) == 8 \div p.bd

\* data byte k of an indexed scanline, most significant bits first
GenPackedByte(p, s, k) ==
    LET W == Abs(p.w)
        Field(i) == IF (k * GenPerByte(p)) + i < W
                    THEN GenIndex(p, s, (k * GenPerByte(p)) + i)
                         * Pow2(8 - (p.bd * (i + 1)))
                    ELSE (IF p.dirty THEN Pow2(8 - (p.bd * (i + 1))) ELSE 0)
        Sum[i \in 0..GenPerByte(p)] ==
            IF i = GenPerByte(p) THEN 0 ELSE Field(i) + Sum[i + 1]
    IN  Sum[0]

RECURSIVE GenFlatten(_)
GenFlatten(ss) == IF Len(ss) = 0 THEN <<>> ELSE Head(ss) \o GenFlatten(Tail(ss))

GenUnpadded(p) ==
    IF p.bd \in {1, 2, 4, 8} THEN CeilDiv(Abs(p.w) * p.bd, 8) ELSE Abs(p.w) * (p.bd \div 8)

GenScanline(p, s) ==
    LET data == IF p.bd \in {1, 2, 4, 8}
                THEN [k \in 1..GenUnpadded(p) |-> GenPackedByte(p, s, k - 1)]
                ELSE GenFlatten([c \in 1..Abs(p.w) |-> GenColorBytes(p, s, c - 1)])
        padded == 4 * CeilDiv(Len(data), 4)
    IN  data \o [k \in 1..(padded - Len(data)) |-> IF p.dirty THEN 255 ELSE 0]

GenTable(p) == GenFlatten([e \in 1..p.n |-> <<50 + e, 150 + e, 250 - e, 80 + e>>])

GenBody(p) ==
    GenTable(p) \o GenFlatten([s \in 1..Abs(p.h) |-> GenScanline(p, s - 1)])

GenHeader(p, len) ==
    to_le_bytes_u16(SIGNATURE) \o to_le_bytes_u32(len) \o to_le_bytes_u32(0)
    \o to_le_bytes_u32(p.off) \o to_le_bytes_u32(INFO_HEADER_SIZE)
    \o to_le_bytes_i32(p.w) \o to_le_bytes_i32(p.h)
    \o to_le_bytes_u16(1) \o to_le_bytes_u16(p.bd)
    \o to_le_bytes_u32(p.comp) \o to_le_bytes_u32(0)
    \o to_le_bytes_i32(3780) \o to_le_bytes_i32(3780)
    \o to_le_bytes_u32(p.n) \o to_le_bytes_u32(0)

\* the buffer of parameters p, its last p.cut bytes dropped
GenBuffer(p) ==
    LET body == GenBody(p)
        full == GenHeader(p, 54 + Len(body)) \o body
    IN  SubSeq(full, 1, Len(full) - Min(p.cut, Len(full)))

GenParams(w, h, bd, comp, n, seed, dirty, cut, off) ==
    [w |-> w, h |-> h, bd |-> bd, comp |-> comp, n |-> n, seed |-> seed,
     dirty |-> dirty, cut |-> cut, off |-> off]

\* buffers laid out as the format says, for every header in the bounds
PlainBuffers ==
    {GenBuffer(GenParams(w, h, bd, 0, n, seed, FALSE, 0, 54 + (4 * n))) :
        w \in (-MaxW)..MaxW, h \in (-MaxH)..MaxH, bd \in BitDepths,
        n \in 0..MaxTable, seed \in {0, 1}}

\* the same with one thing changed: a compression code, non-zero padding,
\* a truncated end, a data offset into the headers or past the end
OddBuffers ==
    LET Base == {GenParams(w, h, bd, 0, n, 0, FALSE, 0, 54 + (4 * n)) :
                    w \in {-1, 1, 2}, h \in {1, 2}, bd \in {1, 4, 8, 24, 32},
                    n \in {0, MaxTable}}
    IN  {GenBuffer([p EXCEPT !.comp = c]) : p \in Base, c \in {1, 2}}
        \cup {GenBuffer([p EXCEPT !.dirty = TRUE]) : p \in Base}
        \cup {GenBuffer([p EXCEPT !.cut = k]) : p \in Base, k \in {1, 2, 5}}
        \cup {GenBuffer([p EXCEPT !.off = o]) : p \in Base, o \in {0, 53, 55, 1000}}
        \cup {GenBuffer([p EXCEPT !.cut = k]) : p \in Base, k \in {1000, 100}}

Buffers == PlainBuffers \cup OddBuffers

Palette ==
    <<ARGB(255, 0, 0, 204), ARGB(255, 204, 0, 0), ARGB(0, 204, 0, 0)>>

\* every Image of the bounds whose pixel count is width x height, and two
\* built by new_pixels with a pixel missing
Images ==
    {new_pixels(w, h, [k \in 1..(w * h) |-> Palette[px[k]]]) :
        <<w, h, px>> \in UNION {
            {<<w, h, px>> : px \in [1..(w * h) -> 1..Len(Palette)]} :
            <<w, h>> \in {wh \in (0..MaxImgSide) \X (0..MaxImgSide) :
                            wh[1] * wh[2] <= MaxImgPixels}}}
    \cup {new_pixels(1, 2, <<Palette[1]>>), new_pixels(2, 1, <<Palette[2]>>)}

\* one-row Images of WideW pixels: of one colour, and of two in turn
WideImages ==
    {new_pixels(WideW, 1, [k \in 1..WideW |-> Palette[1]]),
     new_pixels(WideW, 1, [k \in 1..WideW |-> Palette[(k % 2) + 1]])}

ConvertData(bd, comp, x, y) ==
    [bit_depth |-> bd, compression |-> comp,
     x_pixels_per_meter |-> x, y_pixels_per_meter |-> y]

OptionsSet ==
    {ConvertData(bd, comp, 3780, 3780) : bd \in {1, 4, 8, 16, 24, 32}, comp \in {0, 1}}
    \cup {ConvertData(bd, 0, -3780, -2835) : bd \in {8, 24}}

\* source colours of the conversions: a kind, three components, an alpha
\* the colours written by set, and the coordinates handed to get and set: the
\* places of the largest Image and one column and one row past it
SetColors == {Palette[1], Palette[3]}
Coords == (0..MaxImgSide) \X (0..MaxImgSide)

\* the buffers whose Bitmaps are converted to the Image of the pixel-grid calls
GridBuffers ==
    {GenBuffer(GenParams(wh[1], wh[2], bn[1], 0, bn[2], 0, FALSE, 0, 54 + (4 * bn[2]))) :
        wh \in {<<2, 2>>, <<-1, 2>>, <<2, -1>>}, bn \in {<<24, 0>>, <<8, MaxTable>>}}

\* the channel values of the colours and the bytes of the words that are
\* packed, unpacked and measured
ChannelValues == {0, 18, 130, 255}
PackedColors ==
    {ARGB(a, r, g, b) : a \in ChannelValues, r \in ChannelValues,
                        g \in ChannelValues, b \in ChannelValues}
Words == [1..4 -> ChannelValues]

\* the colours whose distances are measured
MeasuredColors ==
    {ARGB(a, r, g, b) : a \in {0, 255}, r \in {0, 18}, g \in {0, 130}, b \in {0, 255}}

ColorValues ==
    {[kind |-> k, c |-> c, alpha |-> a] :
        k \in ColorKinds, c \in {<<0, 0, 0>>, <<12, 200, 255>>}, a \in {0, 255}}

-----------------------------------------------------------------------------
(* The state machine: the entry points of the library, each called once *)

Init ==
    /\ bytes = <<>>
    /\ decoded = None
    /\ image = None
    /\ options = None
    /\ built = None
    /\ encoded = None
    /\ converted = None
    /\ colorconv = None
    /\ written = None
    /\ grid = None
    /\ gridop = None
    /\ word = None
    /\ dist = None
    /\ iter = None
    /\ pc = "start"

\* let bitmap = Bitmap::try_from(bytes)
Decode(b) ==
    /\ pc = "start"
    /\ bytes' = b
    /\ decoded' = Bitmap_try_from(b)
    /\ pc' = "decoded"
    /\ UNCHANGED <<image, options, built, encoded, converted, colorconv>>
    /\ UNCHANGED <<written, gridvars, colorvars, iter>>

\* let bmp = Bitmap::try_convert_from(img, options)
Build(img, opts) ==
    /\ pc = "start"
    /\ image' = img
    /\ options' = opts
    /\ built' = Bitmap_try_convert_from(img, opts)
    /\ pc' = "built"
    /\ UNCHANGED <<bytes, decoded, encoded, converted, colorconv>>
    /\ UNCHANGED <<written, gridvars, colorvars, iter>>

\* the Bitmap the later calls are handed
Current == IF pc = "decoded" THEN decoded ELSE IF pc = "built" THEN built ELSE None

\* Vec::try_from(bitmap), in a build with or without overflow checks
Encode(overflow_checks) ==
    /\ IsOk(Current)
    /\ encoded = None
    /\ encoded' = Vec_try_from(Current.val, overflow_checks)
    /\ UNCHANGED <<bytes, decoded, image, options, built, converted, colorconv, pc>>
    /\ UNCHANGED <<written, gridvars, colorvars, iter>>

\* Image::try_convert_from(bitmap, ())
ToImage ==
    /\ IsOk(Current)
    /\ converted = None
    /\ converted' = Image_try_convert_from(Current.val)
    /\ UNCHANGED <<bytes, decoded, image, options, built, encoded, colorconv, pc>>
    /\ UNCHANGED <<written, gridvars, colorvars, iter>>

\* Target::try_convert_from(value, options) between two colour kinds
Convert(value, target) ==
    /\ pc = "start"
    /\ colorconv' = [source |-> value.kind, target |-> target, value |-> value,
                     result |-> try_convert_from(value.kind, target, value)]
    /\ pc' = "color"
    /\ UNCHANGED <<bytes, decoded, image, options, built, encoded, converted>>
    /\ UNCHANGED <<written, gridvars, colorvars, iter>>

\* options that take 32 bits per pixel whatever the Bitmap's depth
BitmapConvertData_from_with_alpha(value) ==
    [bit_depth |-> 32, compression |-> value.info_header.compression,
     x_pixels_per_meter |-> value.info_header.x_pixels_per_meter,
     y_pixels_per_meter |-> value.info_header.y_pixels_per_meter]

\* BitmapConvertData::from(&bitmap)
BitmapConvertData_from(value) ==
    [bit_depth |-> value.info_header.bit_depth,
     compression |-> value.info_header.compression,
     x_pixels_per_meter |-> value.info_header.x_pixels_per_meter,
     y_pixels_per_meter |-> value.info_header.y_pixels_per_meter]

\* the WriteToFile arm of the console: bitmap to Image, Image to Bitmap with
\* the options of the bitmap, Bitmap to bytes; `?` and a panic end the chain
WriteToFileBytes(bitmap, overflow_checks) ==
    LET img == Image_try_convert_from(bitmap)
        bmp == Bitmap_try_convert_from(img.val, BitmapConvertData_from(bitmap))
    IN  IF ~IsOk(img) THEN img
        ELSE IF ~IsOk(bmp) THEN bmp
        ELSE Vec_try_from(bmp.val, overflow_checks)

WriteToFile(overflow_checks) ==
    /\ pc = "decoded"
    /\ IsOk(decoded)
    /\ encoded = None
    /\ converted = None
    /\ written' = WriteToFileBytes(decoded.val, overflow_checks)
    /\ pc' = "written"
    /\ UNCHANGED <<bytes, decoded, image, options, built, encoded, converted, colorconv>>
    /\ UNCHANGED <<gridvars, colorvars, iter>>

\* let n = c.as_u32(little_endian); ARGB::from_u32(n, little_endian)
Pack(c, little_endian) ==
    /\ pc = "start"
    /\ word' = [op |-> "pack", color |-> c, little_endian |-> little_endian,
                n |-> ARGB_as_u32(c, little_endian),
                back |-> ARGB_from_u32(ARGB_as_u32(c, little_endian), little_endian)]
    /\ pc' = "word"
    /\ UNCHANGED <<bytes, decoded, image, options, built, encoded, converted, colorconv>>
    /\ UNCHANGED <<written, gridvars, dist, iter>>

\* let c = ARGB::from_u32(n, little_endian); c.as_u32(little_endian)
Unpack(n, little_endian) ==
    /\ pc = "start"
    /\ word' = [op |-> "unpack", n |-> n, little_endian |-> little_endian,
                color |-> ARGB_from_u32(n, little_endian),
                back |-> ARGB_as_u32(ARGB_from_u32(n, little_endian), little_endian)]
    /\ pc' = "word"
    /\ UNCHANGED <<bytes, decoded, image, options, built, encoded, converted, colorconv>>
    /\ UNCHANGED <<written, gridvars, dist, iter>>

\* a.distance_euclidean(&b), a.distance_manhattan(&b), and the same calls the
\* other way round and of a with itself
Measure(a, b) ==
    /\ pc = "start"
    /\ dist' = [a |-> a, b |-> b,
                euclidean |-> ARGB_distance_euclidean(a, b),
                manhattan |-> ARGB_distance_manhattan(a, b),
                euclidean_back |-> ARGB_distance_euclidean(b, a),
                manhattan_back |-> ARGB_distance_manhattan(b, a),
                euclidean_self |-> ARGB_distance_euclidean(a, a),
                manhattan_self |-> ARGB_distance_manhattan(a, a)]
    /\ pc' = "dist"
    /\ UNCHANGED <<bytes, decoded, image, options, built, encoded, converted, colorconv>>
    /\ UNCHANGED <<written, gridvars, word, iter>>

\* let mut img = Image::new(width, height)
GridNew(width, height) ==
    /\ pc = "start"
    /\ grid' = Image_new(width, height)
    /\ gridop' = [origin |-> "new", op |-> "new", result |-> None]
    /\ pc' = "grid"
    /\ UNCHANGED <<bytes, decoded, image, options, built, encoded, converted, colorconv>>
    /\ UNCHANGED <<written, colorvars, iter>>

\* let mut img = Image::new_pixels(width, height, pixels)
GridNewPixels(width, height, pixels) ==
    /\ pc = "start"
    /\ grid' = new_pixels(width, height, pixels)
    /\ gridop' = [origin |-> "new_pixels", op |-> "new_pixels", result |-> None]
    /\ pc' = "grid"
    /\ UNCHANGED <<bytes, decoded, image, options, built, encoded, converted, colorconv>>
    /\ UNCHANGED <<written, colorvars, iter>>

\* let mut img = Image::try_convert_from(bitmap, ())?, the bitmap decoded from b
GridFromBitmap(b) ==
    /\ pc = "start"
    /\ IsOk(Bitmap_try_from(b))
    /\ IsOk(Image_try_convert_from(Bitmap_try_from(b).val))
    /\ grid' = Image_try_convert_from(Bitmap_try_from(b).val).val
    /\ gridop' = [origin |-> "bitmap_to_image", op |-> "bitmap_to_image", result |-> None]
    /\ pc' = "grid"
    /\ UNCHANGED <<bytes, decoded, image, options, built, encoded, converted, colorconv>>
    /\ UNCHANGED <<written, colorvars, iter>>

\* img.set(value, i, j); a panic leaves no Image to call
GridSet(value, i, j) ==
    /\ pc = "grid"
    /\ gridop.result # Panic
    /\ LET r == Image_set(grid, value, i, j)
       IN  /\ grid' = IF IsOk(r) THEN r.val ELSE grid
           /\ gridop' = [origin |-> gridop.origin, op |-> "set",
                         result |-> IF IsOk(r) THEN None ELSE Panic]
    /\ UNCHANGED <<bytes, decoded, image, options, built, encoded, converted, colorconv>>
    /\ UNCHANGED <<written, colorvars, pc, iter>>

\* img.get(i, j), the pixel vector having the given spare capacity
GridGet(i, j, spare) ==
    /\ pc = "grid"
    /\ gridop.result # Panic
    /\ gridop' = [origin |-> gridop.origin, op |-> "get", i |-> i, j |-> j,
                  result |-> Image_get(grid, Len(grid.pixels) + spare, i, j)]
    /\ UNCHANGED <<bytes, decoded, image, options, built, encoded, converted, colorconv>>
    /\ UNCHANGED <<written, colorvars, grid, pc, iter>>

\* Image::iter(): an ImageIterator at row 0 of an Image of the given height
IterNew(height) ==
    /\ pc = "start"
    /\ iter' = [height |-> height, row |-> 0, calls |-> <<>>, returned |-> <<>>]
    /\ pc' = "iter"
    /\ UNCHANGED <<bytes, decoded, image, options, built, encoded, converted, colorconv>>
    /\ UNCHANGED <<written, gridvars, colorvars>>

\* Iterator::next() on the iterator: nth(1), moving the cursor when a row is returned
IterNext ==
    /\ pc = "iter"
    /\ Len(iter.calls) < MaxCalls
    /\ LET item == nth(iter.row, 1, iter.height)
       IN  iter' = [iter EXCEPT
                       !.row = IF item = None THEN @ ELSE move_by(@, 1, iter.height),
                       !.calls = Append(@, "next"),
                       !.returned = Append(@, item)]
    /\ UNCHANGED <<bytes, decoded, image, options, built, encoded, converted, colorconv>>
    /\ UNCHANGED <<written, gridvars, colorvars, pc>>

\* DoubleEndedIterator::next_back() on the same iterator: nth_back(1)
IterNextBack ==
    /\ pc = "iter"
    /\ Len(iter.calls) < MaxCalls
    /\ LET item == nth_back(iter.row, 1, iter.height)
       IN  iter' = [iter EXCEPT
                       !.row = IF item = None THEN @ ELSE move_by(@, 1, iter.height),
                       !.calls = Append(@, "next_back"),
                       !.returned = Append(@, item)]
    /\ UNCHANGED <<bytes, decoded, image, options, built, encoded, converted, colorconv>>
    /\ UNCHANGED <<written, gridvars, colorvars, pc>>

Next ==
    \/ pc = "start" /\ \E b \in Buffers : Decode(b)
    \/ pc = "start" /\ \E img \in Images \cup WideImages, opts \in OptionsSet : Build(img, opts)
    \/ \E oc \in BOOLEAN : Encode(oc)
    \/ ToImage
    \/ pc = "start" /\ \E v \in ColorValues : \E t \in ColorKinds \ {v.kind} : Convert(v, t)
    \/ \E oc \in BOOLEAN : WriteToFile(oc)
    \/ pc = "start" /\ \E c \in PackedColors, e \in BOOLEAN : Pack(c, e)
    \/ pc = "start" /\ \E n \in Words, e \in BOOLEAN : Unpack(n, e)
    \/ pc = "start" /\ \E a \in MeasuredColors, b \in MeasuredColors : Measure(a, b)
    \/ pc = "start" /\ \E w \in 0..MaxImgSide, h \in 0..MaxImgSide :
                            w * h <= MaxImgPixels /\ GridNew(w, h)
    \/ pc = "start" /\ \E img \in Images : GridNewPixels(img.width, img.height, img.pixels)
    \/ pc = "start" /\ \E b \in GridBuffers : GridFromBitmap(b)
    \/ pc = "grid" /\ \E c \in Coords, value \in SetColors : GridSet(value, c[1], c[2])
    \/ pc = "grid" /\ \E c \in Coords, spare \in 0..MaxSpare : GridGet(c[1], c[2], spare)
    \/ pc = "start" /\ \E height \in 0..MaxRows : IterNew(height)
    \/ IterNext
    \/ IterNextBack

Spec == Init /\ [][Next]_vars

-----------------------------------------------------------------------------
(* The format, as the claims state it: read from the bytes themselves *)

\* the unsigned little-endian field of n bytes at offset off
RECURSIVE FieldU(_, _, _)
FieldU(b, off, n) ==
    IF n = 0 THEN 0 ELSE b[off + 1] + (256 * FieldU(b, off + 1, n - 1))

\* the signed 32-bit little-endian field at offset off
FieldI(b, off) ==
    IF b[off + 4] >= 128
    THEN FieldU(b, off, 3) + (16777216 * (b[off + 4] - 256))
    ELSE FieldU(b, off, 4)

HasHeaders(b) == Len(b) >= 54
DataOffsetOf(b) == FieldU(b, 10, 4)
WidthOf(b) == FieldI(b, 18)
HeightOf(b) == FieldI(b, 22)
BitDepthOf(b) == FieldU(b, 28, 2)
CompressionOf(b) == FieldU(b, 30, 4)

SupportedDepths == {1, 4, 8, 24, 32}

\* the bits of a scanline that hold pixels, and its padded length in bytes
RowBits(b) == Abs(WidthOf(b)) * BitDepthOf(b)
RowBytes(b) == 4 * CeilDiv(CeilDiv(RowBits(b), 8), 4)

\* bit k (0 = most significant bit of the first byte) of the scanline at off
BitAt(b, off, k) == (b[off + (k \div 8) + 1] \div Pow2(7 - (k % 8))) % 2

\* a well-formed uncompressed buffer: both headers, a supported depth, the
\* pixel data right behind the colour table, |height| scanlines, each padded
\* with zeros to a multiple of 4 bytes; the image has at least one column
WellFormed(b) ==
    /\ HasHeaders(b)
    /\ BitDepthOf(b) \in SupportedDepths
    /\ CompressionOf(b) = 0
    /\ WidthOf(b) # 0
    /\ DataOffsetOf(b) >= 54
    /\ (DataOffsetOf(b) - 54) % 4 = 0
    /\ DataOffsetOf(b) <= Len(b)
    /\ Len(b) - DataOffsetOf(b) = Abs(HeightOf(b)) * RowBytes(b)
    /\ \A s \in 0..(Abs(HeightOf(b)) - 1) :
           \A k \in RowBits(b)..((8 * RowBytes(b)) - 1) :
               BitAt(b, DataOffsetOf(b) + (s * RowBytes(b)), k) = 0

\* an Image whose pixel sequence has width x height entries
Dense(img) == Len(img.pixels) = img.width * img.height

-----------------------------------------------------------------------------
(* C1 *)

\* C1: for every well-formed uncompressed buffer b with bit depth in
\* {1,4,8,24,32}, decode(b) succeeds and encode(decode(b)) is b, byte for byte.
C1_DecodeEncodeRoundTrip ==
    (pc = "decoded" /\ WellFormed(bytes)) =>
        /\ IsOk(decoded)
        /\ (encoded # None => encoded = Ok(bytes))

\* The round trip of C1 for the buffers whose header width is positive.
RoundTripPositiveWidth ==
    (pc = "decoded" /\ WellFormed(bytes) /\ WidthOf(bytes) > 0) =>
        /\ IsOk(decoded)
        /\ (encoded # None => encoded = Ok(bytes))

-----------------------------------------------------------------------------
(* C2 *)

\* C2: for every dense Image and every options value with bit depth 24 or 32,
\* image_to_bitmap succeeds and bitmap_to_image of its result is the Image
\* again: same width, same height, same pixel at every place.
C2_DirectRoundTrip ==
    (pc = "built" /\ options.bit_depth \in {24, 32} /\ Dense(image)) =>
        /\ IsOk(built)
        /\ (converted # None => converted = Ok(image))

\* a two-row image with different rows went through both conversions
C2_Witness ==
    /\ pc = "built"
    /\ options.bit_depth = 32
    /\ image.width = 2
    /\ image.height = 2
    /\ row(image, 0) # row(image, 1)
    /\ converted = Ok(image)

-----------------------------------------------------------------------------
(* C3 *)

\* C3: for every dense Image (at most 256 distinct colours), image_to_bitmap at
\* bit depth 8 followed by bitmap_to_image yields the Image unchanged, for
\* every height.
C3_IndexedRoundTrip ==
    (pc = "built" /\ options.bit_depth = 8 /\ Dense(image) /\ converted # None) =>
        converted = Ok(image)

\* The round trip of C3 for the images of at most one row.
IndexedRoundTripOneRow ==
    (pc = "built" /\ options.bit_depth = 8 /\ Dense(image) /\ image.height <= 1
        /\ converted # None) =>
        converted = Ok(image)

-----------------------------------------------------------------------------
(* C4 *)

\* the distinct elements of s in the order of their first occurrence
RECURSIVE FirstOccurrences(_, _)
FirstOccurrences(s, seen) ==
    IF Len(s) = 0 THEN seen
    ELSE IF \E k \in 1..Len(seen) : seen[k] = Head(s)
         THEN FirstOccurrences(Tail(s), seen)
         ELSE FirstOccurrences(Tail(s), Append(seen, Head(s)))

\* C4: at bit depth 1, 4 or 8 the colour table of image_to_bitmap holds exactly
\* the distinct colours of the image, none twice, in the order of their first
\* occurrence in the row-major scan from the top row, and the k-th index is
\* the table position of the k-th scanned pixel's colour.
C4_ColorTableFirstOccurrence ==
    (pc = "built" /\ options.bit_depth \in {1, 4, 8} /\ Dense(image)) =>
        /\ IsOk(built)
        /\ built.val.color_table = FirstOccurrences(image.pixels, <<>>)
        /\ built.val.pixels.kind = "Indices"
        /\ Len(built.val.pixels.data) = Len(image.pixels)
        /\ \A k \in 1..Len(image.pixels) :
               /\ built.val.pixels.data[k] < Len(built.val.color_table)
               /\ built.val.color_table[built.val.pixels.data[k] + 1] = image.pixels[k]

\* a table of three colours, the first seen being the last of the palette,
\* two of them differing in alpha alone, and one colour seen twice
C4_Witness ==
    /\ pc = "built"
    /\ options.bit_depth = 4
    /\ IsOk(built)
    /\ Len(image.pixels) = 4
    /\ image.pixels[1] = Palette[3]
    /\ Len(built.val.color_table) = 3
    /\ built.val.pixels.data[4] = 0

-----------------------------------------------------------------------------
(* C5 *)

\* the colour a Bitmap stores at column c of stored scanline s
StoredColor(bm, s, c) ==
    LET at == (Abs(bm.info_header.width) * s) + c + 1
    IN  IF bm.pixels.kind = "Indices"
        THEN bm.color_table[bm.pixels.data[at] + 1]
        ELSE bm.pixels.data[at]

\* C5: bitmap_to_image yields an Image of |width| x |height| whose row r is
\* stored scanline H-1-r when height > 0 and scanline r when height < 0, and
\* whose column c is stored column c when width > 0 and W-1-c when width < 0.
C5_Orientation ==
    (IsOk(Current) /\ converted # None /\ IsOk(converted)) =>
        LET bm == Current.val
            w == bm.info_header.width
            h == bm.info_header.height
            W == Abs(w)
            H == Abs(h)
            img == converted.val
        IN  /\ img.width = W
            /\ img.height = H
            /\ Len(img.pixels) = W * H
            /\ \A r \in 0..(H - 1) : \A c \in 0..(W - 1) :
                   img.pixels[(W * r) + c + 1] =
                       StoredColor(bm, IF h > 0 THEN (H - 1) - r ELSE r,
                                       IF w > 0 THEN c ELSE (W - 1) - c)

\* a decoded 2 x 2 bitmap with negative width and height, whose four pixels
\* differ, was converted
C5_Witness ==
    /\ pc = "decoded"
    /\ IsOk(decoded)
    /\ decoded.val.info_header.width = -2
    /\ decoded.val.info_header.height = -2
    /\ converted # None
    /\ IsOk(converted)
    /\ Cardinality({converted.val.pixels[k] : k \in 1..4}) = 4

-----------------------------------------------------------------------------
(* C6 *)

\* C6: decode returns a Bitmap or an error value for every byte buffer; it
\* never faults, also not on a buffer shorter than the headers or one whose
\* data offset is past its end.
C6_DecodeNeverFaults ==
    pc = "decoded" => decoded.tag \in {"Ok", "Err"}

-----------------------------------------------------------------------------
(* C7 *)

\* C7: decode of a buffer of at least 54 bytes whose data offset is below 54
\* returns the error value that says the data offset points into the info
\* header, and no Bitmap.
C7_OffsetInsideHeaders ==
    (pc = "decoded" /\ HasHeaders(bytes) /\ DataOffsetOf(bytes) < 54) =>
        decoded = Err("Bitmap data is malformed; data offset points to the info header.",
                      <<>>)

\* a buffer with headers whose data offset is 53 was decoded
C7_Witness ==
    /\ pc = "decoded"
    /\ HasHeaders(bytes)
    /\ DataOffsetOf(bytes) = 53
    /\ decoded.tag = "Err"

-----------------------------------------------------------------------------
(* C8 *)

\* C8: with both headers present and the data offset inside the buffer,
\* decode returns an error value for bit depth 16, an error value that names
\* the depth for every depth outside {1,4,8,16,24,32}, and a Bitmap only for
\* the depths 1, 4, 8, 24 and 32.
C8_BitDepthDispatch ==
    (pc = "decoded" /\ HasHeaders(bytes)
        /\ DataOffsetOf(bytes) >= 54 /\ DataOffsetOf(bytes) <= Len(bytes)) =>
        /\ BitDepthOf(bytes) = 16 => decoded.tag = "Err"
        /\ BitDepthOf(bytes) \notin (SupportedDepths \cup {16}) =>
               (decoded.tag = "Err" /\ decoded.args = <<BitDepthOf(bytes)>>)
        /\ decoded.tag = "Ok" => BitDepthOf(bytes) \in SupportedDepths

\* a 2-bit buffer with a colour table was decoded to the error naming depth 2
C8_Witness ==
    /\ pc = "decoded"
    /\ HasHeaders(bytes)
    /\ DataOffsetOf(bytes) = 62
    /\ Len(bytes) > 62
    /\ BitDepthOf(bytes) = 2
    /\ decoded = Err("Not implemented for {}-bit images!", <<2>>)

-----------------------------------------------------------------------------
(* C9 *)

\* the messages of the malformed-input errors of decode
MalformedMessages ==
    {"Bitmap data is malformed; data offset points to the info header.",
     "Not implemented for 16-bit images!",
     "Not implemented for {}-bit images!"}

\* C9: decode of a buffer whose compression code is not 0 returns an
\* unsupported-format error value, distinct from the malformed-input errors,
\* and no Bitmap.
C9_CompressedRejected ==
    (pc = "decoded" /\ HasHeaders(bytes) /\ CompressionOf(bytes) # 0) =>
        /\ decoded.tag = "Err"
        /\ decoded.msg \notin MalformedMessages

-----------------------------------------------------------------------------
(* C10 *)

UnimplementedEdges ==
    {<<"AXYZ", "ARGB">>, <<"AXYZ", "AHSV">>,
     <<"ALAB", "ARGB">>, <<"ALAB", "AXYZ">>, <<"ALAB", "AHSV">>,
     <<"AHSV", "ARGB">>, <<"AHSV", "AXYZ">>, <<"AHSV", "ALAB">>}

\* C10: every unimplemented conversion edge returns the unsupported-conversion
\* error as a value for every input; it never faults and never returns a
\* colour.
C10_UnsupportedIsError ==
    (pc = "color" /\ <<colorconv.source, colorconv.target>> \in UnimplementedEdges) =>
        colorconv.result.tag = "Err"

-----------------------------------------------------------------------------
(* C11 *)

\* the bytes of the buffer behind the data offset, the scanlines they hold in
\* full, and the bytes left over behind the last full scanline
DataBytes(b) == Len(b) - DataOffsetOf(b)
FullScanlines(b) == DataBytes(b) \div RowBytes(b)
LeftoverBytes(b) == DataBytes(b) % RowBytes(b)

\* the pixels that are complete in the leftover bytes, at most one scanline
LeftoverPixels(b) ==
    Min(Abs(WidthOf(b)), (8 * LeftoverBytes(b)) \div BitDepthOf(b))

\* the pixel the buffer holds at column c of its scanline s, read off the bytes
PixelInBuffer(b, s, c) ==
    LET off == DataOffsetOf(b) + (s * RowBytes(b))
        at == off + (c * (BitDepthOf(b) \div 8))
        bits == {k \in 0..(BitDepthOf(b) - 1) :
                    BitAt(b, off, (c * BitDepthOf(b)) + k) = 1}
    IN  CASE BitDepthOf(b) = 24 -> ARGB(255, b[at + 3], b[at + 2], b[at + 1])
          [] BitDepthOf(b) = 32 -> ARGB(b[at + 4], b[at + 3], b[at + 2], b[at + 1])
          [] OTHER -> LET RECURSIVE Sum(_)
                          Sum(S) == IF S = {} THEN 0
                                    ELSE LET k == CHOOSE k \in S : TRUE
                                         IN  Pow2(BitDepthOf(b) - 1 - k) + Sum(S \ {k})
                      IN  Sum(bits)

\* the pixel data the claim describes: the full scanlines, then the leftover
PixelsInBuffer(b) ==
    LET W == Abs(WidthOf(b))
        n == (FullScanlines(b) * W) + LeftoverPixels(b)
    IN  [k \in 1..n |-> PixelInBuffer(b, (k - 1) \div W, (k - 1) % W)]

\* a buffer of a supported depth that ends inside a scanline: both headers and
\* the colour table are whole, the image has a column
EndsInsideScanline(b) ==
    /\ HasHeaders(b)
    /\ BitDepthOf(b) \in SupportedDepths
    /\ WidthOf(b) # 0
    /\ DataOffsetOf(b) >= 54
    /\ DataOffsetOf(b) <= Len(b)
    /\ LeftoverBytes(b) > 0

\* C11: when the buffer ends before a full scanline is available, decode does
\* not fail: the Bitmap's pixel data is every pixel of the complete scanlines
\* followed by the complete pixels of the remaining bytes, and nothing else.
C11_TruncatedScanline ==
    (pc = "decoded" /\ EndsInsideScanline(bytes)) =>
        /\ IsOk(decoded)
        /\ decoded.val.pixels.data = PixelsInBuffer(bytes)

\* The statement of C11 for the buffers whose header width is positive.
TruncatedScanlinePositiveWidth ==
    (pc = "decoded" /\ EndsInsideScanline(bytes) /\ WidthOf(bytes) > 0) =>
        /\ IsOk(decoded)
        /\ decoded.val.pixels.data = PixelsInBuffer(bytes)

-----------------------------------------------------------------------------
(* C12 *)

\* C12: Image.get(x, y) returns the colour stored at column x of row y when
\* x < width and y < height, and returns None without faulting for every
\* other coordinate, the one whose flat index is the pixel count and the ones
\* with x >= width included.
C12_GetInBoundsOrNone ==
    (pc = "grid" /\ gridop.op = "get" /\ Dense(grid)) =>
        IF gridop.i < grid.width /\ gridop.j < grid.height
        THEN gridop.result = Some(row(grid, gridop.j)[gridop.i + 1])
        ELSE gridop.result = None

\* The first half of C12: inside the grid, get returns the stored colour.
GetInsideGrid ==
    (pc = "grid" /\ gridop.op = "get" /\ Dense(grid)
        /\ gridop.i < grid.width /\ gridop.j < grid.height) =>
        gridop.result = Some(row(grid, gridop.j)[gridop.i + 1])

-----------------------------------------------------------------------------
(* C13 *)

\* C13: every Image made by new, new_pixels or bitmap_to_image and then
\* written by any sequence of set calls has width x height pixels; new
\* yields width x height entries of the default value.
C13_PixelCount ==
    pc = "grid" =>
        /\ Dense(grid)
        /\ gridop.op = "new" => \A k \in 1..Len(grid.pixels) : grid.pixels[k] = ARGB_default

\* The statement of C13 for the Images that new and bitmap_to_image made.
PixelCountWithoutNewPixels ==
    (pc = "grid" /\ gridop.origin # "new_pixels") =>
        /\ Dense(grid)
        /\ gridop.op = "new" => \A k \in 1..Len(grid.pixels) : grid.pixels[k] = ARGB_default

-----------------------------------------------------------------------------
(* C14 *)

\* the unpadded length in bytes of a scanline of W pixels at bit depth bd, and
\* the smallest multiple of 4 that is not below it
UnpaddedLength(W, bd) ==
    IF bd \in {24, 32} THEN W * (bd \div 8) ELSE CeilDiv(W, 8 \div bd)
PaddedLength(W, bd) ==
    CHOOSE m \in UnpaddedLength(W, bd)..(UnpaddedLength(W, bd) + 3) : m % 4 = 0

\* the bytes of an encoding behind its headers and its colour table
EncodedPixelBytes(bm, out) ==
    SubSeq(out, 54 + (4 * Len(bm.color_table)) + 1, Len(out))

\* C14: in the bytes produced by encode every scanline occupies the smallest
\* multiple of 4 that is >= its unpadded length, and the 0 to 3 bytes added
\* at the end of each scanline are zero.
C14_ScanlinePadding ==
    (IsOk(Current) /\ IsOk(encoded)
        /\ Current.val.info_header.bit_depth \in SupportedDepths) =>
        LET bm == Current.val
            W == Abs(bm.info_header.width)
            bd == bm.info_header.bit_depth
            U == UnpaddedLength(W, bd)
            P == PaddedLength(W, bd)
            px == EncodedPixelBytes(bm, encoded.val)
            lines == Len(bm.pixels.data) \div W
        IN  /\ Len(px) = lines * P
            /\ \A s \in 0..(lines - 1) : \A k \in (U + 1)..P : px[(s * P) + k] = 0

\* two scanlines of one 24-bit pixel were encoded: each has 3 bytes of pixel
\* and 1 byte of padding
C14_Witness ==
    /\ IsOk(Current)
    /\ IsOk(encoded)
    /\ Current.val.info_header.bit_depth = 24
    /\ Abs(Current.val.info_header.width) = 1
    /\ Len(Current.val.pixels.data) = 2
    /\ Len(EncodedPixelBytes(Current.val, encoded.val)) = 8
    /\ EncodedPixelBytes(Current.val, encoded.val)[3] # 0

-----------------------------------------------------------------------------
(* C15 *)

\* C15: every Bitmap returned by a successful decode and every Bitmap
\* returned by image_to_bitmap has data_offset = 14 + 40 + 4 x (number of
\* colour-table entries).
C15_DataOffsetInvariant ==
    IsOk(Current) =>
        Current.val.header.data_offset = 14 + 40 + (4 * Len(Current.val.color_table))

\* The statement of C15 for the Bitmaps of image_to_bitmap.
DataOffsetOfBuilt ==
    (pc = "built" /\ IsOk(built)) =>
        built.val.header.data_offset = 14 + 40 + (4 * Len(built.val.color_table))

\* The statement of C15 for the decoded buffers whose data offset lies a
\* multiple of 4 bytes behind the headers.
DataOffsetOfDecodedAligned ==
    (pc = "decoded" /\ IsOk(decoded) /\ (DataOffsetOf(bytes) - 54) % 4 = 0) =>
        decoded.val.header.data_offset = 14 + 40 + (4 * Len(decoded.val.color_table))

-----------------------------------------------------------------------------
(* C16 *)

\* C16: the pixel data of every Bitmap returned by a successful decode has
\* |width| x |height| entries, width and height those of its info header.
C16_PixelDataCount ==
    (pc = "decoded" /\ IsOk(decoded)) =>
        Len(decoded.val.pixels.data)
            = Abs(decoded.val.info_header.width) * Abs(decoded.val.info_header.height)

\* The statement of C16 for the well-formed buffers of positive width.
PixelDataCountPositiveWidth ==
    (pc = "decoded" /\ WellFormed(bytes) /\ WidthOf(bytes) > 0) =>
        /\ IsOk(decoded)
        /\ Len(decoded.val.pixels.data)
            = Abs(decoded.val.info_header.width) * Abs(decoded.val.info_header.height)

-----------------------------------------------------------------------------
(* C17 *)

\* C17: for every Image and every bit depth in {1,4,8,24,32} the file_size
\* field of image_to_bitmap(img, opts) is the length in bytes of
\* encode(image_to_bitmap(img, opts)).
C17_FileSizeIsEncodedLength ==
    (pc = "built" /\ Dense(image) /\ options.bit_depth \in SupportedDepths
        /\ IsOk(built) /\ IsOk(encoded)) =>
        built.val.header.file_size = Len(encoded.val)

\* The statement of C17 for the bit depths that fill whole bytes.
FileSizeWholeBytes ==
    (pc = "built" /\ Dense(image) /\ options.bit_depth \in {8, 24, 32}
        /\ IsOk(built) /\ IsOk(encoded)) =>
        built.val.header.file_size = Len(encoded.val)

-----------------------------------------------------------------------------
(* C18 *)

\* a well-formed 24-bit buffer with the header fields image_to_bitmap writes:
\* the signature, the length as file size, a 40-byte info header, one plane,
\* and zero in the reserved, image size and colour count fields
PlainDirect24(b) ==
    /\ WellFormed(b)
    /\ BitDepthOf(b) = 24
    /\ WidthOf(b) > 0
    /\ HeightOf(b) > 0
    /\ FieldU(b, 0, 2) = 19778
    /\ FieldU(b, 2, 4) = Len(b)
    /\ FieldU(b, 6, 4) = 0
    /\ FieldU(b, 14, 4) = 40
    /\ FieldU(b, 26, 2) = 1
    /\ FieldU(b, 34, 4) = 0
    /\ FieldU(b, 46, 4) = 0
    /\ FieldU(b, 50, 4) = 0

\* C18: for every well-formed uncompressed 24-bit buffer b with positive
\* width and height, reserved 0, planes 1, image size 0, colour counts 0 and
\* file size its length, decoding b, converting to an Image, converting back
\* with b's bit depth, compression and resolutions, and encoding gives b.
C18_PipelineReproducesBuffer ==
    (pc = "written" /\ PlainDirect24(bytes)) => written = Ok(bytes)

\* a 2x2 buffer of four different pixels went through the pipeline
C18_Witness ==
    /\ pc = "written"
    /\ PlainDirect24(bytes)
    /\ WidthOf(bytes) = 2
    /\ HeightOf(bytes) = 2
    /\ Cardinality({decoded.val.pixels.data[k] : k \in 1..4}) = 4
    /\ written = Ok(bytes)

-----------------------------------------------------------------------------
(* C19 *)

\* the bytes of a word from the most significant one down
MostSignificantFirst(n) == <<n[4], n[3], n[2], n[1]>>

\* C19: unpacking a packed colour with the same flag gives the colour, and
\* packing an unpacked word gives the word; with the big-endian flag the
\* word holds alpha, red, green, blue from its most significant byte down,
\* with the little-endian flag blue, green, red, alpha.
C19_PackUnpack ==
    pc = "word" =>
        /\ word.op = "pack" =>
            /\ word.back = word.color
            /\ MostSignificantFirst(word.n)
                = IF word.little_endian
                  THEN <<word.color.blue, word.color.green, word.color.red, word.color.alpha>>
                  ELSE <<word.color.alpha, word.color.red, word.color.green, word.color.blue>>
        /\ word.op = "unpack" => word.back = word.n

\* a colour of four different channels was packed with the little-endian
\* flag and came back
C19_Witness ==
    /\ pc = "word"
    /\ word.op = "pack"
    /\ word.little_endian
    /\ word.color = ARGB(255, 18, 130, 0)
    /\ word.n = <<255, 18, 130, 0>>
    /\ word.back = word.color

-----------------------------------------------------------------------------
(* C20 *)

SameRGB(a, b) == a.red = b.red /\ a.green = b.green /\ a.blue = b.blue

\* C20: a colour is at Euclidean distance 0 from itself, the Manhattan
\* distance is the same both ways round, and both distances are those of the
\* red, green and blue channels alone: changing the alphas changes neither,
\* and two colours that differ only in alpha are at distance 0.
C20_Distances ==
    pc = "dist" =>
        /\ dist.euclidean_self = f32_sqrt(0)
        /\ dist.manhattan = dist.manhattan_back
        /\ \A x \in {0, 255}, y \in {0, 255} :
              /\ ARGB_distance_euclidean(ARGB_with_alpha(dist.a, x),
                                         ARGB_with_alpha(dist.b, y)) = dist.euclidean
              /\ ARGB_distance_manhattan(ARGB_with_alpha(dist.a, x),
                                         ARGB_with_alpha(dist.b, y)) = dist.manhattan
        /\ SameRGB(dist.a, dist.b) =>
              dist.euclidean = f32_sqrt(0) /\ dist.manhattan = 0

\* two colours of different alpha and different red, green and blue were
\* measured: 18 + 130 + 255 apart
C20_Witness ==
    /\ pc = "dist"
    /\ dist.a = ARGB(255, 18, 130, 255)
    /\ dist.b = ARGB(0, 0, 0, 0)
    /\ dist.manhattan = 403
    /\ dist.manhattan_back = 403
    /\ dist.euclidean = f32_sqrt(82249)

-----------------------------------------------------------------------------
(* C21 *)

\* a buffer of an indexed depth that holds complete scanlines only, with any
\* bits in the padding
CompleteIndexedScanlines(b) ==
    /\ HasHeaders(b)
    /\ BitDepthOf(b) \in {1, 4, 8}
    /\ WidthOf(b) # 0
    /\ DataOffsetOf(b) >= 54
    /\ DataOffsetOf(b) <= Len(b)
    /\ FullScanlines(b) > 0
    /\ LeftoverBytes(b) = 0

\* C21: at bit depths 1, 4 and 8 decode yields |width| indices for every
\* complete scanline, whatever the sign of the width: the fields behind
\* |width| in the last data byte and the pad bytes are dropped, and index c
\* is the c-th bit_depth-bit field of the scanline, most significant first.
C21_IndicesPerScanline ==
    (pc = "decoded" /\ CompleteIndexedScanlines(bytes)) =>
        /\ IsOk(decoded)
        /\ Len(decoded.val.pixels.data) = FullScanlines(bytes) * Abs(WidthOf(bytes))
        /\ decoded.val.pixels.data = PixelsInBuffer(bytes)

\* The statement of C21 for the buffers whose header width is positive.
IndicesPerScanlinePositiveWidth ==
    (pc = "decoded" /\ CompleteIndexedScanlines(bytes) /\ WidthOf(bytes) > 0) =>
        /\ IsOk(decoded)
        /\ Len(decoded.val.pixels.data) = FullScanlines(bytes) * Abs(WidthOf(bytes))
        /\ decoded.val.pixels.data = PixelsInBuffer(bytes)

-----------------------------------------------------------------------------
(* C22 *)

\* a buffer of a direct depth with both headers and a data offset inside it
DirectBuffer(b) ==
    /\ HasHeaders(b)
    /\ BitDepthOf(b) \in {24, 32}
    /\ WidthOf(b) # 0
    /\ DataOffsetOf(b) >= 54
    /\ DataOffsetOf(b) <= Len(b)

\* the header fields as the little-endian values of the bytes of b
HeaderInBuffer(b) ==
    BitmapHeader(FieldU(b, 0, 2), FieldU(b, 2, 4), FieldU(b, 6, 4), FieldU(b, 10, 4))

InfoHeaderInBuffer(b) ==
    [size |-> FieldU(b, 14, 4), width |-> FieldI(b, 18), height |-> FieldI(b, 22),
     planes |-> FieldU(b, 26, 2), bit_depth |-> FieldU(b, 28, 2),
     compression |-> FieldU(b, 30, 4), image_size |-> FieldU(b, 34, 4),
     x_pixels_per_meter |-> FieldI(b, 38), y_pixels_per_meter |-> FieldI(b, 42),
     colors_used |-> FieldU(b, 46, 4), important_colors |-> FieldU(b, 50, 4)]

-----------------------------------------------------------------------------
(* C23 *)

\* the Bitmap bm with the two resolutions x and y
WithResolution(bm, x, y) ==
    [bm EXCEPT !.info_header.x_pixels_per_meter = x,
               !.info_header.y_pixels_per_meter = y]

Resolutions == {-3780, -2835, 0, 2835, 3780}

-----------------------------------------------------------------------------
(* C24 *)

\* the d-bit field of pixel k of scanline s in the encoded pixel bytes px,
\* whose scanlines are P bytes long: bits 8 - d*(k mod (8/d)) - d and up of
\* byte k div (8/d)
PackedField(px, P, d, s, k) ==
    (px[(s * P) + (k \div (8 \div d)) + 1] \div Pow2(8 - (d * (k % (8 \div d))) - d))
        % Pow2(d)

\* an indexed Bitmap of a depth that encode packs, with a column
IndexedBitmap(bm) ==
    /\ bm.pixels.kind = "Indices"
    /\ bm.info_header.bit_depth \in {1, 4, 8}
    /\ bm.info_header.width # 0

\* C24: encode of indexed pixel data at depth d returns without a fault and
\* puts the low d bits of index k of a scanline into the d-bit field of
\* pixel k, whatever the index: an index >= 2^d changes no other field.
C24_IndexMasking ==
    (IsOk(Current) /\ IndexedBitmap(Current.val) /\ encoded # None) =>
        LET bm == Current.val
            W == Abs(bm.info_header.width)
            d == bm.info_header.bit_depth
            P == PaddedLength(W, d)
        IN  /\ IsOk(encoded)
            /\ \A s \in 0..((Len(bm.pixels.data) \div W) - 1) : \A k \in 0..(W - 1) :
                  PackedField(EncodedPixelBytes(bm, encoded.val), P, d, s, k)
                      = bm.pixels.data[(s * W) + k + 1] % Pow2(d)

\* The statement of C24 for the Bitmaps whose indices are all below 2^d.
IndexPackingInRange ==
    (IsOk(Current) /\ IndexedBitmap(Current.val) /\ encoded # None
        /\ \A k \in 1..Len(Current.val.pixels.data) :
               Current.val.pixels.data[k] < Pow2(Current.val.info_header.bit_depth)) =>
        LET bm == Current.val
            W == Abs(bm.info_header.width)
            d == bm.info_header.bit_depth
            P == PaddedLength(W, d)
        IN  /\ IsOk(encoded)
            /\ \A s \in 0..((Len(bm.pixels.data) \div W) - 1) : \A k \in 0..(W - 1) :
                  PackedField(EncodedPixelBytes(bm, encoded.val), P, d, s, k)
                      = bm.pixels.data[(s * W) + k + 1] % Pow2(d)

-----------------------------------------------------------------------------
(* C25 *)

-----------------------------------------------------------------------------
(* C26 *)

\* C26: decode terminates on every byte buffer: the call returns, also for
\* a header whose width is 0 at a supported bit depth.
C26_DecodeTerminates ==
    pc = "decoded" => decoded # Diverge

\* The statement of C26 for the buffers whose header width is not 0.
DecodeTerminatesWithColumns ==
    (pc = "decoded" /\ HasHeaders(bytes) /\ WidthOf(bytes) # 0) => decoded # Diverge

\* the rows an iterator has returned so far, the None results left out
RowsReturned(it) ==
    LET some == SelectSeq(it.returned, LAMBDA r : r # None)
    IN  [k \in 1..Len(some) |-> some[k].val]

\* no row index twice in a sequence of rows
PairwiseDistinct(rows) ==
    \A k \in 1..Len(rows), l \in 1..Len(rows) : k # l => rows[k] # rows[l]

\* a call returns None exactly when height rows were returned before it
NoneOnlyWhenExhausted(it) ==
    \A k \in 1..Len(it.returned) :
        (it.returned[k] = None) <=>
            (Len(SelectSeq(SubSeq(it.returned, 1, k - 1), LAMBDA r : r # None)) = it.height)

OnlyCalls(it, name) == \A k \in 1..Len(it.calls) : it.calls[k] = name

ForwardOrder(it) ==
    OnlyCalls(it, "next") =>
        \A k \in 1..Len(RowsReturned(it)) : RowsReturned(it)[k] = k - 1

ReverseOrder(it) ==
    OnlyCalls(it, "next_back") =>
        \A k \in 1..Len(RowsReturned(it)) : RowsReturned(it)[k] = it.height - k

\* C27: under any interleaving of next() and next_back() on one ImageIterator
\* the rows returned are pairwise distinct, a call returns None exactly when
\* all the rows of the Image were returned, forward-only iteration returns
\* rows 0..h-1 in order and reverse-only iteration returns rows h-1..0
C27_RowsReturnedOnce ==
    pc = "iter" =>
        /\ PairwiseDistinct(RowsReturned(iter))
        /\ NoneOnlyWhenExhausted(iter)
        /\ ForwardOrder(iter)
        /\ ReverseOrder(iter)

\* what holds of the iterator under every interleaving: the count of rows
\* returned, and the order of the rows when only one end is taken from
RowsReturnedCountAndOrder ==
    pc = "iter" =>
        /\ NoneOnlyWhenExhausted(iter)
        /\ ForwardOrder(iter)
        /\ ReverseOrder(iter)
        /\ (OnlyCalls(iter, "next") \/ OnlyCalls(iter, "next_back"))
               => PairwiseDistinct(RowsReturned(iter))

-----------------------------------------------------------------------------
(* C28 *)

\* the pixel indices of an indexed Bitmap are all below n
IndicesBelow(bm, n) ==
    \A k \in 1..Len(bm.pixels.data) : bm.pixels.data[k] < n

\* C28: for every Image and every bit depth d of 1, 4 and 8, the Bitmap that
\* Bitmap::try_convert_from returns has a colour table of at most 2^d
\* entries, and every pixel index is below 2^d and below the colour-table
\* length
C28_IndicesFitBitDepth ==
    (pc = "built" /\ IsOk(built) /\ options.bit_depth \in {1, 4, 8}) =>
        /\ Len(built.val.color_table) <= Pow2(options.bit_depth)
        /\ IndicesBelow(built.val, Pow2(options.bit_depth))
        /\ IndicesBelow(built.val, Len(built.val.color_table))

\* what holds at every bit depth: the indices are below the colour-table
\* length, and the table is as long as the Image has distinct colours
IndicesBelowTableLength ==
    (pc = "built" /\ IsOk(built) /\ options.bit_depth \in {1, 4, 8}) =>
        /\ IndicesBelow(built.val, Len(built.val.color_table))
        /\ Len(built.val.color_table) =
               Cardinality({image.pixels[k] : k \in 1..Len(image.pixels)})

-----------------------------------------------------------------------------
(* C29 *)

\* a Bitmap that holds a pixel for every cell of its width and height, and
\* whose indices, if it is indexed, are all below the colour-table length
CompleteBitmap(bm) ==
    /\ Len(bm.pixels.data) >= Abs(bm.info_header.width) * Abs(bm.info_header.height)
    /\ bm.pixels.kind = "Indices" =>
           \A k \in 1..Len(bm.pixels.data) : bm.pixels.data[k] < Len(bm.color_table)

\* C29: for every Bitmap that decode returns, Image::try_convert_from
\* returns a result value, an Image or an error, and reads neither outside
\* the pixel data nor outside the colour table, also for a Bitmap decoded
\* from a truncated buffer and for an indexed Bitmap whose indices exceed the
\* colour-table length
C29_ToImageReturns ==
    (pc = "decoded" /\ IsOk(decoded) /\ converted # None) =>
        (IsOk(converted) \/ converted.tag = "Err")

\* what holds: a decoded Bitmap that holds every pixel of its width and
\* height, with every index inside the colour table, converts to an Image,
\* and every other decoded Bitmap with cells to fill makes the call panic
ToImageReturnsWhenComplete ==
    (pc = "decoded" /\ IsOk(decoded) /\ converted # None) =>
        /\ CompleteBitmap(decoded.val) => IsOk(converted)
        /\ (converted = Panic) => ~CompleteBitmap(decoded.val)

-----------------------------------------------------------------------------
(* C30 *)

\* the buffer begins with the 54 header bytes of the Bitmap, followed by
\* 4 bytes, blue, green, red and alpha, per colour-table entry
BeginsWithHeadersAndTable(b, bm) ==
    /\ Len(b) >= 54 + (4 * Len(bm.color_table))
    /\ FieldU(b, 0, 2) = bm.header.signature
    /\ FieldU(b, 2, 4) = bm.header.file_size
    /\ FieldU(b, 6, 4) = bm.header.reserved
    /\ FieldU(b, 10, 4) = bm.header.data_offset
    /\ FieldU(b, 14, 4) = bm.info_header.size
    /\ FieldI(b, 18) = bm.info_header.width
    /\ FieldI(b, 22) = bm.info_header.height
    /\ FieldU(b, 26, 2) = bm.info_header.planes
    /\ FieldU(b, 28, 2) = bm.info_header.bit_depth
    /\ FieldU(b, 30, 4) = bm.info_header.compression
    /\ FieldU(b, 34, 4) = bm.info_header.image_size
    /\ FieldI(b, 38) = bm.info_header.x_pixels_per_meter
    /\ FieldI(b, 42) = bm.info_header.y_pixels_per_meter
    /\ FieldU(b, 46, 4) = bm.info_header.colors_used
    /\ FieldU(b, 50, 4) = bm.info_header.important_colors
    /\ \A k \in 1..Len(bm.color_table) :
           SubSeq(b, 51 + (4 * k), 54 + (4 * k)) =
               <<bm.color_table[k].blue, bm.color_table[k].green,
                 bm.color_table[k].red, bm.color_table[k].alpha>>

\* C30: encode returns Ok(bytes) for every Bitmap and never faults, also for
\* a Bitmap whose width is 0, and the output begins with the 54 header bytes
\* followed by 4 bytes per colour-table entry
C30_EncodeReturnsOk ==
    (IsOk(Current) /\ encoded # None) =>
        /\ IsOk(encoded)
        /\ BeginsWithHeadersAndTable(encoded.val, Current.val)

\* what holds: a Bitmap of width 0 makes encode panic and any other Bitmap
\* is encoded unless a packed byte overflows, and every encoding begins
\* with the headers and the colour table
EncodeOkBeginsWithHeaders ==
    (IsOk(Current) /\ encoded # None) =>
        /\ Current.val.info_header.width = 0 => encoded = Panic
        /\ (Current.val.info_header.width # 0 /\ Current.val.pixels.kind = "Colors")
               => IsOk(encoded)
        /\ IsOk(encoded) => BeginsWithHeadersAndTable(encoded.val, Current.val)


====
